---------------------------- MODULE Spec2Model ----------------------------
(* Model of plinky_convert: the UF2 container codec (write_uf2 / read_uf2), *)
(* the PRESETS flash-page journal (read_page_footer, find_sample_offset,    *)
(* calculate_page_crc, update_sample_page), create_splits, create_waveform  *)
(* and the update run of wav2uf2.main.                                      *)
(*                                                                          *)
(* Bytes are integers 0..255 and byte strings are sequences of them.        *)
(* Python integers are unbounded while TLC's are 32-bit signed, so every    *)
(* unsigned 32-bit header word is carried as a pair <<hi, lo>> of 16-bit    *)
(* halves (value = hi * 65536 + lo); sums of such words keep hi unbounded.  *)
EXTENDS Integers, Sequences, FiniteSets, TLC

\* ------------------------------------------------------------ constants
UF2_MAGIC_START_0 == <<2610, 18005>>     \* 0x0a324655
UF2_MAGIC_START_1 == <<40541, 20823>>    \* 0x9e5d5157
UF2_MAGIC_END == <<2737, 28464>>         \* 0x0ab16f30
UF2_FLAGS == 0
UF2_PAYLOAD_SIZE == 256
UF2_PAYLOAD_OFFSET == 32
UF2_FAMILY_ID == 0
UF2_BLOCK_SIZE == 512
DATA_SIZE == 256

SAMPLE_TARGET_ADDRESS_OFFSET == <<16384, 0>>   \* 0x40000000
SAMPLE_NUM_BLOCKS == 16384
SAMPLE_WAVEFORM_BLOCKSIZE == 1024
PRESET_TARGET_ADDRESS_OFFSET == <<2056, 0>>    \* 0x08080000
PRESET_PAGE_SIZE == 2048
PRESET_PAGE_FOOTER_SIZE == 8
PRESET_NUM_PRESETS == 32
PRESET_NUM_PATTERNS == 24
PRESET_VERSION == 2
PRESET_PATTERNS_IDX == PRESET_NUM_PRESETS
PRESET_SAMPLES_IDX == PRESET_PATTERNS_IDX + 4 * PRESET_NUM_PATTERNS

\* --------------------------------------------------------------- bounds
MaxBlocks == 3
MaxPages == 2
MaxCues == 2
\* Sample capacity in 1024-sample waveform windows. The device's SAMPLE_COUNT
\* is 0x200000 samples (2048 windows); the run is modelled at this capacity.
SampleWindows == 2
SAMPLE_COUNT == SampleWindows * SAMPLE_WAVEFORM_BLOCKSIZE

\* -------------------------------------------------------------- helpers
Min(a, b) == IF a < b THEN a ELSE b
Max(a, b) == IF a < b THEN b ELSE a

\* Python slice s[lo:hi] for 0 <= lo, 0 <= hi (0-based, end exclusive, clipped).
Slice(s, lo, hi) == SubSeq(s, lo + 1, Min(hi, Len(s)))

Zeros(n) == [k \in 1..n |-> 0]

\* Words: <<hi, lo>> with lo in 0..65535.
WOfNat(n) == <<n \div 65536, n % 65536>>
WAdd(a, b) == <<a[1] + b[1] + ((a[2] + b[2]) \div 65536), (a[2] + b[2]) % 65536>>
\* struct.pack('<I', v) accepts exactly 0 <= v <= 0xFFFFFFFF.
FitsU32(w) == w[1] >= 0 /\ w[1] <= 65535
\* struct.pack('<I', v): four bytes, least significant first.
PackU32(w) == <<w[2] % 256, w[2] \div 256, w[1] % 256, w[1] \div 256>>
\* struct.unpack_from('<I', b, off)
UnpackU32(b, off) == <<b[off + 3] + 256 * b[off + 4], b[off + 1] + 256 * b[off + 2]>>
\* min(w, cap) as a TLC integer, for a word used as a slice length.
WCapped(w, cap) == IF w[1] > 0 \/ w[2] > cap THEN cap ELSE w[2]

\* ------------------------------------------------------------ UF2 codec
\* The 32 header bytes of block i of n written at block_target_address.
UF2Header(block_target_address, i, n) ==
    PackU32(UF2_MAGIC_START_0) \o PackU32(UF2_MAGIC_START_1) \o PackU32(WOfNat(UF2_FLAGS))
    \o PackU32(block_target_address) \o PackU32(WOfNat(UF2_PAYLOAD_SIZE))
    \o PackU32(WOfNat(i)) \o PackU32(WOfNat(n)) \o PackU32(WOfNat(UF2_FAMILY_ID))

\* Number of chunks range(0, len(data), UF2_PAYLOAD_SIZE) yields.
NumChunks(n, size) == (n + size - 1) \div size

UF2Block(data, i, n, block_target_address) ==
    UF2Header(block_target_address, i, n)
    \o Slice(data, i * UF2_PAYLOAD_SIZE, i * UF2_PAYLOAD_SIZE + UF2_PAYLOAD_SIZE)
    \o Zeros(UF2_BLOCK_SIZE - UF2_PAYLOAD_SIZE - UF2_PAYLOAD_OFFSET - 4)
    \o PackU32(UF2_MAGIC_END)

\* A writer that stamps every block with the base address.
BlockTargetAddressBase(target_address, i) == target_address

\* The address write_uf2 gives block i (0-based).
BlockTargetAddress(target_address, i) == WAdd(target_address, WOfNat(i * UF2_PAYLOAD_SIZE))

RECURSIVE WriteLoop(_, _, _, _, _)
WriteLoop(data, target_address, i, n, written) ==
    IF i = n THEN [ok |-> TRUE, content |-> written]
    ELSE IF ~FitsU32(BlockTargetAddress(target_address, i))
         THEN [ok |-> FALSE, content |-> written]     \* struct.error: file keeps blocks 0..i-1
         ELSE WriteLoop(data, target_address, i + 1, n,
                        written \o UF2Block(data, i, n, BlockTargetAddress(target_address, i)))

\* write_uf2 without its backup: the bytes the opened file ends up holding,
\* and whether the loop finished (ok) or struct.pack raised.
write_uf2(data, target_address) ==
    WriteLoop(data, target_address, 0, NumChunks(Len(data), UF2_PAYLOAD_SIZE), <<>>)

\* blocks = [content[i:i+512] for i in range(0, len(content), 512)]
Blocks(content) ==
    [k \in 1..NumChunks(Len(content), UF2_BLOCK_SIZE) |->
        Slice(content, (k - 1) * UF2_BLOCK_SIZE, k * UF2_BLOCK_SIZE)]

NoAddress == <<-1, -1>>     \* previous_address = None

WLeq(a, b) == a[1] < b[1] \/ (a[1] = b[1] /\ a[2] <= b[2])

\* A reader that rejects overlaps but lets gaps through.
ContiguousOrGap(previous_address, target_address, payload_size) ==
    previous_address = NoAddress \/ WLeq(WAdd(previous_address, payload_size), target_address)

\* not (previous_address is not None and target_address != previous_address + payload_size)
Contiguous(previous_address, target_address, payload_size) ==
    previous_address = NoAddress \/ target_address = WAdd(previous_address, payload_size)

\* The loop of read_uf2. fixed = TRUE is normalize_uf2_sample.py, which reads
\* only the address word and uses DATA_SIZE for both the check and the slice.
RECURSIVE ReadLoop(_, _, _, _, _)
ReadLoop(blocks, k, previous_address, data_blocks, fixed) ==
    IF k > Len(blocks) THEN [kind |-> "ok", data |-> data_blocks]
    ELSE LET block == blocks[k]
             need == IF fixed THEN 16 ELSE 32
         IN IF Len(block) < need THEN [kind |-> "StructError", data |-> <<>>]
            ELSE LET target_address == UnpackU32(block, 12)
                     payload_size == IF fixed THEN WOfNat(DATA_SIZE) ELSE UnpackU32(block, 16)
                 IN IF ~Contiguous(previous_address, target_address, payload_size)
                    THEN [kind |-> "NonContiguous", data |-> <<>>]
                    ELSE ReadLoop(blocks, k + 1, target_address,
                                  data_blocks \o Slice(block, UF2_PAYLOAD_OFFSET,
                                      UF2_PAYLOAD_OFFSET + WCapped(payload_size, UF2_BLOCK_SIZE)),
                                  fixed)

read_uf2(content) == ReadLoop(Blocks(content), 1, NoAddress, <<>>, FALSE)
uf22wav_read_uf2(content) == ReadLoop(Blocks(content), 1, NoAddress, <<>>, FALSE)
normalize_read_uf2(content) == ReadLoop(Blocks(content), 1, NoAddress, <<>>, TRUE)

\* ------------------------------------------------------- PRESETS journal
\* struct.pack('<i', v), two's complement, least significant byte first.
PackI32(v) == <<v % 256, (v \div 256) % 256, (v \div 65536) % 256, (v \div 16777216) % 256>>
\* struct.pack('<H', v)
PackU16(v) == <<v % 256, v \div 256>>
\* struct '1024s': the bytes truncated or zero-padded to 1024.
Pack1024s(w) == [k \in 1..1024 |-> IF k <= Len(w) THEN w[k] ELSE 0]

\* read_page_footer: (idx, version, crc, seq), or struct.error on a short buffer.
read_page_footer(bytes, offset) ==
    LET at == offset + PRESET_PAGE_SIZE - PRESET_PAGE_FOOTER_SIZE
    IN IF at + PRESET_PAGE_FOOTER_SIZE > Len(bytes) THEN [kind |-> "StructError"]
       ELSE [kind |-> "ok", idx |-> bytes[at + 1], version |-> bytes[at + 2],
             crc |-> bytes[at + 3] + 256 * bytes[at + 4], seq |-> UnpackU32(bytes, at + 4)]

WLess(a, b) == a[1] < b[1] \/ (a[1] = b[1] /\ a[2] < b[2])

\* seq > cur_seq
Newer(seq, cur_seq) == WLess(cur_seq, seq)

RECURSIVE FindLoop(_, _, _, _, _)
FindLoop(bytes, preset_idx, o, cur_seq, offset) ==
    IF o >= Len(bytes) THEN [kind |-> "ok", offset |-> offset]
    ELSE LET f == read_page_footer(bytes, o)
         IN IF f.kind # "ok" THEN [kind |-> "StructError", offset |-> 0]
            ELSE IF f.idx = preset_idx /\ f.version = PRESET_VERSION /\ Newer(f.seq, cur_seq)
                 THEN FindLoop(bytes, preset_idx, o + PRESET_PAGE_SIZE, f.seq, o)
                 ELSE FindLoop(bytes, preset_idx, o + PRESET_PAGE_SIZE, cur_seq, offset)

find_sample_offset(bytes, idx) == FindLoop(bytes, PRESET_SAMPLES_IDX + idx, 0, <<0, 0>>, 0)

\* hash = (hash * 23 + data[i]) % 0x10000 for i = lo .. hi-1 (0-based), in order.
\* The range is walked as two halves, first then second, which keeps the
\* evaluation depth logarithmic; the test on h forces the first half's value
\* before the second half starts.
RECURSIVE CrcRange(_, _, _, _)
CrcRange(bytes, lo, hi, hash) ==
    IF hi <= lo THEN hash
    ELSE IF hi = lo + 1 THEN (hash * 23 + bytes[lo + 1]) % 65536
    ELSE LET mid == (lo + hi) \div 2
             h == CrcRange(bytes, lo, mid, hash)
         IN IF h < 0 THEN h ELSE CrcRange(bytes, mid, hi, h)

\* A checksum that runs over the whole page, footer included.
CrcWithFooter(bytes, offset) ==
    IF offset + PRESET_PAGE_SIZE > Len(bytes) THEN [kind |-> "IndexError", crc |-> 0]
    ELSE [kind |-> "ok", crc |-> CrcRange(bytes, offset, offset + PRESET_PAGE_SIZE, 123)]

calculate_page_crc(bytes, offset) ==
    IF offset + PRESET_PAGE_SIZE - PRESET_PAGE_FOOTER_SIZE > Len(bytes)
    THEN [kind |-> "IndexError", crc |-> 0]
    ELSE [kind |-> "ok",
          crc |-> CrcRange(bytes, offset, offset + PRESET_PAGE_SIZE - PRESET_PAGE_FOOTER_SIZE, 123)]

\* struct.pack_into(fmt, ba, at, ...): ba with the packed bytes laid over it from 0-based at.
PackInto(ba, at, packed) ==
    [k \in 1..Len(ba) |-> IF k > at /\ k <= at + Len(packed) THEN packed[k - at] ELSE ba[k]]

\* '<1024s8ii' of (waveform, splits[0..7], sample_len)
PackSampleInfo(wf, sp, slen) ==
    Pack1024s(wf) \o PackI32(sp[1]) \o PackI32(sp[2]) \o PackI32(sp[3]) \o PackI32(sp[4])
    \o PackI32(sp[5]) \o PackI32(sp[6]) \o PackI32(sp[7]) \o PackI32(sp[8]) \o PackI32(slen)

\* An update that lays the checksum over the first two footer bytes.
CrcFieldOffsetAtFooterStart(offset) == offset + PRESET_PAGE_SIZE - PRESET_PAGE_FOOTER_SIZE

\* Where update_sample_page writes the checksum.
CrcFieldOffset(offset) == offset + PRESET_PAGE_SIZE - PRESET_PAGE_FOOTER_SIZE + 2

\* update_sample_page: ba is the returned bytearray, data the argument after the call.
update_sample_page(bytes, idx, slen, wf, sp) ==
    LET fo == find_sample_offset(bytes, idx)
        packed == PackSampleInfo(wf, sp, slen)
    IN IF fo.kind # "ok" \/ Len(sp) < 8 \/ fo.offset + Len(packed) > Len(bytes)
       THEN [kind |-> "StructError", ba |-> <<>>, data |-> bytes]
       ELSE LET ba1 == PackInto(bytes, fo.offset, packed)
                c == calculate_page_crc(ba1, fo.offset)
            IN IF c.kind # "ok" \/ CrcFieldOffset(fo.offset) + 2 > Len(ba1)
               THEN [kind |-> "StructError", ba |-> <<>>, data |-> bytes]
               ELSE [kind |-> "ok", data |-> bytes,
                     ba |-> PackInto(ba1, CrcFieldOffset(fo.offset), PackU16(c.crc))]

\* ------------------------------------------------------------- splits
\* sorted(s): insertion of each element into the sorted rest.
RECURSIVE Sorted(_)
Sorted(s) ==
    IF Len(s) <= 1 THEN s
    ELSE LET rest == Sorted(Tail(s))
             below == SelectSeq(rest, LAMBDA x : x < Head(s))
             above == SelectSeq(rest, LAMBDA x : x >= Head(s))
         IN below \o <<Head(s)>> \o above

\* int(a / b) for b > 0: the quotient truncated toward zero.
TruncDiv(a, b) == IF a >= 0 THEN a \div b ELSE -((-a) \div b)

\* create_splits. int(last_split + i * split_size) with
\* split_size = (length - last_split) / (missing + 1), as an exact quotient.
create_splits(cues, length) ==
    LET first == Sorted(Slice(cues, 0, 8))
        seeded == IF Len(first) = 0 THEN <<0>> ELSE first
        missing == 8 - Len(seeded)
        last_split == seeded[Len(seeded)]
    IN seeded \o [i \in 1..missing |->
                    TruncDiv(last_split * (missing + 1) + i * (length - last_split), missing + 1)]

\* ------------------------------------------------------------- WAV input
\* struct.unpack_from('<h', block, s)
Sample16(b0, b1) == IF b0 + 256 * b1 >= 32768 THEN b0 + 256 * b1 - 65536 ELSE b0 + 256 * b1
Abs(x) == IF x < 0 THEN -x ELSE x

\* max(abs(sample)) over the samples at 0-based byte offsets lo, lo+2, .. < hi (0 if none).
RECURSIVE Peak(_, _, _)
Peak(bytes, lo, hi) ==
    IF hi - lo < 2 THEN 0
    ELSE IF hi - lo < 4 THEN Abs(Sample16(bytes[lo + 1], bytes[lo + 2]))
    ELSE LET mid == lo + 2 * ((hi - lo) \div 4)
         IN Max(Peak(bytes, lo, mid), Peak(bytes, mid, hi))

\* create_waveform: one level floor(peak / 1024) per 1024-sample block, two
\* clamped levels per byte of a 1024-byte array; IndexError on an odd block count.
create_waveform(bytes) ==
    LET nblocks == NumChunks(Len(bytes), SAMPLE_WAVEFORM_BLOCKSIZE * 2)
        level(b) == Peak(bytes, (b - 1) * SAMPLE_WAVEFORM_BLOCKSIZE * 2,
                         Min(b * SAMPLE_WAVEFORM_BLOCKSIZE * 2, Len(bytes))) \div 1024
        clamp(v) == Max(Min(v, 15), 0)
    IN IF nblocks % 2 = 1 THEN [kind |-> "IndexError", packed |-> <<>>]
       ELSE IF nblocks > 2048 THEN [kind |-> "StructError", packed |-> <<>>]
       ELSE [kind |-> "ok",
             packed |-> [k \in 1..1024 |->
                            IF 2 * k <= nblocks
                            THEN clamp(level(2 * k - 1)) + 16 * clamp(level(2 * k))
                            ELSE 0]]

\* The frames of a WAV file: n 16-bit samples derived from seed.
Frames(n, seed) == [k \in 1..(2 * n) |-> (seed + 29 * k + 5 * (k \div 64)) % 256]

\* read_wav: the checks in the order of the code, then frames plus 0xffff padding.
read_wav(w) ==
    IF w.nchannels # 1 \/ w.sampwidth # 2 \/ w.framerate # 32000
       \/ w.nframes > SAMPLE_COUNT \/ w.comptype # "NONE"
    THEN [kind |-> "ValueError", bytes |-> <<>>, nframes |-> 0]
    ELSE [kind |-> "ok", nframes |-> w.nframes,
          bytes |-> Frames(w.nframes, w.seed)
                    \o [k \in 1..(2 * (SAMPLE_COUNT - w.nframes)) |-> 255]]

\* print_sample_page evaluates all it logs: find_sample_offset, read_page_footer,
\* calculate_page_crc and read_sample_info ('<1024s8ii8bBB', 1070 bytes) must succeed.
print_sample_page(bytes, idx) ==
    LET fo == find_sample_offset(bytes, idx)
    IN /\ fo.kind = "ok"
       /\ read_page_footer(bytes, fo.offset).kind = "ok"
       /\ calculate_page_crc(bytes, fo.offset).kind = "ok"
       /\ fo.offset + 1070 <= Len(bytes)

\* ----------------------------------------------------------------- state
VARIABLES
    pc,              \* position of the run being modelled
    data,            \* payload buffer handed to write_uf2 / flash image handed to the journal
    target_address,  \* base address handed to write_uf2
    content,         \* bytes of the UF2 file read_uf2 reads
    tamper,          \* what was done to the file between writing and reading
    result,          \* wav2uf2.read_uf2(content)
    result_wav,      \* uf22wav.read_uf2(content)
    result_norm,     \* normalize_uf2_sample.read_uf2(content)
    layout,          \* the footers the flash image was built from, page by page
    presets_data,    \* the decoded PRESETS flash image
    index,           \* sample index 0..7
    found,           \* find_sample_offset(presets_data, index)
    sample_len,      \* update input: sample length
    waveform,        \* update input: waveform thumbnail
    splits,          \* update input: the 8 split points
    updated,         \* update_sample_page(presets_data, index, sample_len, waveform, splits)
    markers,         \* cue positions read from the WAV file
    wav,             \* the WAV file given to main
    sample_data,     \* read_wav's padded sample bytes
    files,           \* the directory: PRESETS.UF2, SAMPLE<index>.UF2, backups made
    files0           \* the directory when the run started

uf2vars == <<data, target_address, content, tamper, result, result_wav, result_norm>>
jvars == <<layout, presets_data, index, found, sample_len, waveform, splits, updated>>
mvars == <<wav, sample_data, files, files0>>
vars == <<pc, uf2vars, jvars, markers, mvars>>

NoFile == <<-1>>
NoWav == [nchannels |-> 0, sampwidth |-> 0, framerate |-> 0, nframes |-> 0,
          comptype |-> "", markers |-> <<>>, seed |-> 0]
NoFiles == [presets |-> NoFile, sample |-> NoFile, backups |-> <<>>]
MainIdle == wav = NoWav /\ sample_data = <<>> /\ files = NoFiles /\ files0 = NoFiles


NoFound == [kind |-> "none", offset |-> 0]
NoUpdate == [kind |-> "none", ba |-> <<>>, data |-> <<>>]
JournalIdle ==
    /\ layout = <<>> /\ presets_data = <<>> /\ index = 0 /\ found = NoFound
    /\ sample_len = 0 /\ waveform = <<>> /\ splits = <<>> /\ updated = NoUpdate

NoResult == [kind |-> "none", data |-> <<>>]
NoTamper == [kind |-> "none", block |-> 0]

\* Payload buffers: n bytes, no two 256-byte chunks alike.
Pattern(n, seed) == [k \in 1..n |-> (seed + 7 * (k - 1) + 11 * ((k - 1) \div 256)) % 256]

Seeds == {0, 101}
Buffers == {Pattern(n * UF2_PAYLOAD_SIZE, s) : n \in 0..MaxBlocks, s \in Seeds}
\* 0, the two addresses the program uses, and two near the top of the 32-bit range.
Bases == {<<0, 0>>, PRESET_TARGET_ADDRESS_OFFSET, SAMPLE_TARGET_ADDRESS_OFFSET,
          <<65535, 65280>>, <<65535, 65024>>}

\* --------------------------------------------- specification of the codec
NumBlocks == Len(content) \div UF2_BLOCK_SIZE

\* content with the 4 bytes at 0-based offset off replaced by word w.
PokeU32(bytes, off, w) ==
    [k \in 1..Len(bytes) |-> IF k > off /\ k <= off + 4 THEN PackU32(w)[k - off] ELSE bytes[k]]

HeaderAddress(i) == UnpackU32(content, (i - 1) * UF2_BLOCK_SIZE + 12)

InitUF2 ==
    /\ pc = "input"
    /\ data \in Buffers
    /\ target_address \in Bases
    /\ content = <<>>
    /\ tamper = NoTamper
    /\ result = NoResult
    /\ result_wav = NoResult
    /\ result_norm = NoResult
    /\ JournalIdle
    /\ markers = <<>>
    /\ MainIdle

\* write_uf2(data, filename, target_address)
Encode ==
    /\ pc = "input"
    /\ LET w == write_uf2(data, target_address)
       IN /\ content' = w.content
          /\ pc' = IF w.ok THEN "encoded" ELSE "encode_failed"
    /\ UNCHANGED <<data, target_address, tamper, result, result_wav, result_norm, jvars, markers, mvars>>

\* One block's target address is replaced by a different 32-bit value.
PerturbAddress ==
    /\ pc = "encoded"
    /\ \E i \in 1..NumBlocks :
         \E a \in {WAdd(HeaderAddress(i), <<0, 1>>), WAdd(HeaderAddress(i), <<0, 256>>),
                   WAdd(HeaderAddress(i), <<1, 0>>), target_address, <<0, 0>>, <<65535, 65535>>} :
            /\ a # HeaderAddress(i)
            /\ FitsU32(a)
            /\ content' = PokeU32(content, (i - 1) * UF2_BLOCK_SIZE + 12, a)
            /\ tamper' = [kind |-> "address", block |-> i]
    /\ pc' = "tampered"
    /\ UNCHANGED <<data, target_address, result, result_wav, result_norm, jvars, markers, mvars>>

\* One block's payload size is replaced, its address kept or moved to follow
\* the previous block's address by the new size.
SetHeader ==
    /\ pc = "encoded"
    /\ \E i \in 1..NumBlocks : \E s \in {0, 16, 300, 600} : \E follow \in BOOLEAN :
            /\ follow => i >= 2
            /\ LET a == IF follow THEN WAdd(HeaderAddress(i - 1), WOfNat(s)) ELSE HeaderAddress(i)
                   off == (i - 1) * UF2_BLOCK_SIZE
               IN /\ FitsU32(a)
                  /\ content' = PokeU32(PokeU32(content, off + 12, a), off + 16, WOfNat(s))
            /\ tamper' = [kind |-> "header", block |-> i]
    /\ pc' = "tampered"
    /\ UNCHANGED <<data, target_address, result, result_wav, result_norm, jvars, markers, mvars>>

\* The file loses its last cut bytes.
Truncate ==
    /\ pc = "encoded"
    /\ NumBlocks >= 1
    /\ \E cut \in {1, 224, 225, 480, 481, 497, 511} :
            /\ content' = SubSeq(content, 1, Len(content) - cut)
            /\ tamper' = [kind |-> "truncate", block |-> NumBlocks]
    /\ pc' = "tampered"
    /\ UNCHANGED <<data, target_address, result, result_wav, result_norm, jvars, markers, mvars>>

\* The file gains a partial block: the first r bytes of the block that would
\* continue the image, or r zero bytes.
AppendPartial ==
    /\ pc = "encoded"
    /\ FitsU32(BlockTargetAddress(target_address, NumBlocks))
    /\ \E r \in {1, 15, 16, 31, 32, 40} : \E zero \in BOOLEAN :
            /\ content' = content \o
                  (IF zero THEN Zeros(r)
                   ELSE SubSeq(UF2Header(BlockTargetAddress(target_address, NumBlocks),
                                         NumBlocks, NumBlocks + 1) \o Zeros(8), 1, r))
            /\ tamper' = [kind |-> "append", block |-> NumBlocks + 1]
    /\ pc' = "tampered"
    /\ UNCHANGED <<data, target_address, result, result_wav, result_norm, jvars, markers, mvars>>

\* read_uf2(filename), by each of the three scripts.
Decode ==
    /\ pc \in {"encoded", "tampered"}
    /\ result' = read_uf2(content)
    /\ result_wav' = uf22wav_read_uf2(content)
    /\ result_norm' = normalize_read_uf2(content)
    /\ pc' = "decoded"
    /\ UNCHANGED <<data, target_address, content, tamper, jvars, markers, mvars>>

NextUF2 == Encode \/ PerturbAddress \/ SetHeader \/ Truncate \/ AppendPartial \/ Decode

SpecUF2 == InitUF2 /\ [][NextUF2]_vars

\* ------------------------------------------------------- codec properties
\* Every block address base + i * 256 of the image fits an unsigned 32-bit word.
AllAddressesFit ==
    Len(data) = 0 \/ FitsU32(WAdd(target_address, WOfNat(Len(data) - UF2_PAYLOAD_SIZE)))

RoundTrips == result.kind = "ok" /\ result.data = data

\* C1 as stated: for every buffer of a multiple of 256 bytes and every base
\* address, write_uf2 produces an image and read_uf2 of it returns the buffer.
C1_RoundTripAnyBase ==
    /\ pc # "encode_failed"
    /\ (pc = "decoded" /\ tamper.kind = "none") => RoundTrips

\* C1 amended: the round trip holds for every buffer of a multiple of 256
\* bytes and every base address whose block addresses all fit in 32 bits.
C1_RoundTrip ==
    AllAddressesFit =>
        /\ pc # "encode_failed"
        /\ (pc = "decoded" /\ tamper.kind = "none") => RoundTrips

\* A buffer of two or more chunks written at the sample base address and read back.
C1_Witness ==
    /\ pc = "decoded" /\ tamper.kind = "none"
    /\ Len(data) >= 2 * UF2_PAYLOAD_SIZE
    /\ target_address = SAMPLE_TARGET_ADDRESS_OFFSET
    /\ RoundTrips

\* C2 as stated: with one block's target address changed, in an image of any
\* block count, read_uf2 raises the non-contiguous error.
C2_PerturbedAnyCount ==
    (pc = "decoded" /\ tamper.kind = "address") =>
        result.kind = "NonContiguous" /\ result_norm.kind = "NonContiguous"

\* C2 amended: with one block's target address changed, in an image of at
\* least two blocks, read_uf2 raises the non-contiguous error.
C2_Perturbed ==
    (pc = "decoded" /\ tamper.kind = "address" /\ NumBlocks >= 2) =>
        result.kind = "NonContiguous" /\ result_norm.kind = "NonContiguous"

\* The first block of an image of two or more blocks was moved and the read failed.
C2_Witness ==
    /\ pc = "decoded" /\ tamper.kind = "address" /\ tamper.block = 1
    /\ NumBlocks >= 2
    /\ result.kind = "NonContiguous"

\* C9: read_uf2 returns no payload for any input whose length is not a
\* multiple of 512.
C9_RaggedRejected ==
    (pc = "decoded" /\ Len(content) % UF2_BLOCK_SIZE # 0) =>
        result.kind # "ok" /\ result_wav.kind # "ok"

HeaderSize(i) == UnpackU32(content, (i - 1) * UF2_BLOCK_SIZE + 16)

\* Some block i >= 1 does not start where block i-1 ends, by block i-1's own size.
GapAfterPrevious ==
    \E i \in 2..NumBlocks : HeaderAddress(i) # WAdd(HeaderAddress(i - 1), HeaderSize(i - 1))

\* C10: on whole 512-byte blocks read_uf2 raises the non-contiguous error
\* exactly when some block's address differs from the previous block's
\* address plus the previous block's payload size.
C10_PreviousBlockSize ==
    (pc = "decoded" /\ Len(content) % UF2_BLOCK_SIZE = 0) =>
        /\ result.kind = "NonContiguous" <=> GapAfterPrevious
        /\ result_wav.kind = "NonContiguous" <=> GapAfterPrevious

\* ------------------------------------------- specification of the journal
\* Footers a page may carry: sample slot 0 at sequence 0, 5 and 7, sample
\* slot 0 with another schema version, and sample slot 1.
FooterKinds ==
    {[idx |-> PRESET_SAMPLES_IDX, version |-> PRESET_VERSION, seq |-> <<0, 0>>],
     [idx |-> PRESET_SAMPLES_IDX, version |-> PRESET_VERSION, seq |-> <<0, 5>>],
     [idx |-> PRESET_SAMPLES_IDX, version |-> PRESET_VERSION, seq |-> <<0, 7>>],
     [idx |-> PRESET_SAMPLES_IDX, version |-> PRESET_VERSION - 1, seq |-> <<0, 9>>],
     [idx |-> PRESET_SAMPLES_IDX + 1, version |-> PRESET_VERSION, seq |-> <<1, 0>>]}

Layouts == UNION {[1..n -> FooterKinds] : n \in 0..MaxPages}

\* Byte j (0-based) of page p (0-based) carrying footer f: a body in which
\* no byte of the record, the notes or the padding is zero, a stale checksum.
PageByte(f, p, j) ==
    IF j < PRESET_PAGE_SIZE - PRESET_PAGE_FOOTER_SIZE
    THEN 1 + ((13 + 5 * j + 17 * p + 3 * (j \div 256)) % 255)
    ELSE (<<f.idx, f.version, 239, 190>> \o PackU32(f.seq))
             [j - (PRESET_PAGE_SIZE - PRESET_PAGE_FOOTER_SIZE) + 1]

Image(lay) ==
    [k \in 1..(Len(lay) * PRESET_PAGE_SIZE) |->
        PageByte(lay[((k - 1) \div PRESET_PAGE_SIZE) + 1],
                 (k - 1) \div PRESET_PAGE_SIZE, (k - 1) % PRESET_PAGE_SIZE)]

UpdateInputs ==
    {[sample_len |-> 0, waveform |-> Zeros(1024), splits |-> <<0, 0, 0, 0, 0, 0, 0, 0>>],
     [sample_len |-> 70000, waveform |-> Pattern(1024, 3),
      splits |-> <<-1, 1, 255, 256, 65536, 16777216, 2147483647, -2147483647>>]}

UF2Idle ==
    /\ data = <<>> /\ target_address = <<0, 0>> /\ content = <<>> /\ tamper = NoTamper
    /\ result = NoResult /\ result_wav = NoResult /\ result_norm = NoResult

InitJournal ==
    /\ pc = "image"
    /\ layout \in Layouts
    /\ presets_data = Image(layout)
    /\ index \in {0, 1}
    /\ found = NoFound
    /\ sample_len = 0 /\ waveform = <<>> /\ splits = <<>> /\ updated = NoUpdate
    /\ UF2Idle
    /\ markers = <<>>
    /\ MainIdle

\* offset = find_sample_offset(data, index)
Find ==
    /\ pc = "image"
    /\ found' = find_sample_offset(presets_data, index)
    /\ pc' = "found"
    /\ UNCHANGED <<uf2vars, layout, presets_data, index, sample_len, waveform, splits, updated, markers, mvars>>

\* updated_presets_data = update_sample_page(presets_data, index, sample_len, waveform, splits)
Update ==
    /\ pc = "found"
    /\ \E in \in UpdateInputs :
          /\ sample_len' = in.sample_len
          /\ waveform' = in.waveform
          /\ splits' = in.splits
          /\ updated' = update_sample_page(presets_data, index, in.sample_len, in.waveform, in.splits)
    /\ presets_data' = updated'.data
    /\ pc' = "updated"
    /\ UNCHANGED <<uf2vars, layout, index, found, markers, mvars>>

NextJournal == Find \/ Update

SpecJournal == InitJournal /\ [][NextJournal]_vars

\* ----------------------------------------------------- journal properties
NumPages == Len(layout)

\* Page p (1-based) carries the requested sample slot at the expected version.
Matches(lay, idx, p) ==
    lay[p].idx = PRESET_SAMPLES_IDX + idx /\ lay[p].version = PRESET_VERSION

\* Page p is the first of the matching pages with the highest sequence number.
Authoritative(lay, idx, p) ==
    /\ Matches(lay, idx, p)
    /\ \A q \in 1..Len(lay) : Matches(lay, idx, q) => ~WLess(lay[p].seq, lay[q].seq)
    /\ \A q \in 1..(p - 1) : Matches(lay, idx, q) => WLess(lay[q].seq, lay[p].seq)

\* C3: whenever some page matches the slot and version, find_sample_offset
\* returns the offset of the first matching page of maximum sequence number.
C3_ResolverMax ==
    (pc = "found" /\ \E p \in 1..NumPages : Matches(layout, index, p)) =>
        /\ found.kind = "ok"
        /\ \E p \in 1..NumPages :
              Authoritative(layout, index, p) /\ found.offset = (p - 1) * PRESET_PAGE_SIZE

\* C4: the result on an image with no matching page differs from the result
\* on every image whose page at offset 0 is the authoritative one.
C4_NotFoundDistinct ==
    (pc = "found" /\ ~\E p \in 1..NumPages : Matches(layout, index, p)) =>
        \A other \in Layouts :
            (Len(other) >= 1 /\ Authoritative(other, index, 1)) =>
                find_sample_offset(Image(other), index) # found

\* 0-based byte offset k lies in the record fields or the checksum field of
\* the page at offset o: waveform, 8 splits, sample length (1060 bytes), and
\* the 2 checksum bytes of the footer.
Patched(o, k) ==
    \/ (k >= o /\ k < o + 1024 + 8 * 4 + 4)
    \/ (k >= o + PRESET_PAGE_SIZE - PRESET_PAGE_FOOTER_SIZE + 2
        /\ k < o + PRESET_PAGE_SIZE - PRESET_PAGE_FOOTER_SIZE + 4)

UpdateReturned == pc = "updated" /\ updated.kind = "ok"

\* C7: the returned image has the input's length and the input's bytes
\* everywhere outside the 1060 record bytes and the 2 checksum bytes of the
\* resolved page; that page keeps its slot id, version and sequence number;
\* the input buffer still holds the image it was given.
C7_UpdateFrame ==
    UpdateReturned =>
        LET before == Image(layout)
            o == found.offset
            p == (o \div PRESET_PAGE_SIZE) + 1
            f == read_page_footer(updated.ba, o)
        IN /\ Len(updated.ba) = Len(before)
           /\ \A k \in 0..(Len(before) - 1) : ~Patched(o, k) => updated.ba[k + 1] = before[k + 1]
           /\ f.idx = layout[p].idx /\ f.version = layout[p].version /\ f.seq = layout[p].seq
           /\ presets_data = before

\* The second page of a two-page image was patched with a new waveform.
C7_Witness ==
    /\ UpdateReturned
    /\ NumPages = 2 /\ found.offset = PRESET_PAGE_SIZE
    /\ sample_len = 70000
    /\ SubSeq(updated.ba, PRESET_PAGE_SIZE + 1, PRESET_PAGE_SIZE + 1024) = waveform
    /\ updated.ba # presets_data

\* The fold acc = (acc * 23 + b) mod 65536 over the bytes body[lo..hi-1] in
\* order, started from acc (the checksum of a body is the fold from 123).
RECURSIVE Checksum(_, _, _, _)
Checksum(body, lo, hi, acc) ==
    IF lo >= hi THEN acc
    ELSE IF hi = lo + 1 THEN (acc * 23 + body[hi]) % 65536
    ELSE LET left == Checksum(body, lo, lo + ((hi - lo) \div 2), acc)
         IN IF left \in 0..65535 THEN Checksum(body, lo + ((hi - lo) \div 2), hi, left) ELSE -1

\* C8: the checksum field of the patched page is the checksum of the 2040
\* body bytes of that page as returned, a value in 0..65535.
C8_ChecksumAfterUpdate ==
    UpdateReturned =>
        LET o == found.offset
            body == SubSeq(updated.ba, o + 1, o + PRESET_PAGE_SIZE - PRESET_PAGE_FOOTER_SIZE)
            field == read_page_footer(updated.ba, o).crc
        IN /\ field = Checksum(body, 0, Len(body), 123)
           /\ field \in 0..65535

\* The second page of a two-page image was patched and its checksum field changed.
C8_Witness ==
    /\ UpdateReturned
    /\ NumPages = 2 /\ found.offset = PRESET_PAGE_SIZE /\ sample_len = 70000
    /\ read_page_footer(updated.ba, found.offset).crc # read_page_footer(presets_data, found.offset).crc

\* -------------------------------------------- specification of the splits
CuePositions == {0, 3, 40, 100}
\* Short cue lists in any order, and lists of 8 and of 10 cues out of order.
CueLists ==
    UNION {[1..n -> CuePositions] : n \in 0..MaxCues}
    \cup {<<70, 10, 60, 20, 50, 30, 40, 0>>, <<90, 10, 60, 20, 50, 30, 40, 80, 5, 0>>}
Lengths == {0, 8, 50, 100, 1000}

InitSplits ==
    /\ pc = "cues"
    /\ markers \in CueLists
    /\ sample_len \in Lengths
    /\ splits = <<>>
    /\ layout = <<>> /\ presets_data = <<>> /\ index = 0 /\ found = NoFound
    /\ waveform = <<>> /\ updated = NoUpdate
    /\ UF2Idle
    /\ MainIdle

\* splits = create_splits(markers, sample_len)
CreateSplits ==
    /\ pc = "cues"
    /\ splits' = create_splits(markers, sample_len)
    /\ pc' = "split"
    /\ UNCHANGED <<uf2vars, layout, presets_data, index, found, sample_len, waveform, updated, markers, mvars>>

NextSplits == CreateSplits

SpecSplits == InitSplits /\ [][NextSplits]_vars

\* C5: create_splits returns exactly 8 integers in non-decreasing order, for
\* every cue list and every total length.
C5_SplitsNonDecreasing ==
    pc = "split" =>
        /\ Len(splits) = 8
        /\ \A i \in 1..7 : splits[i] <= splits[i + 1]

\* ------------------------------------------- specification of the update run
SlotPage(seq) == [idx |-> PRESET_SAMPLES_IDX, version |-> PRESET_VERSION, seq |-> seq]
OtherPage == [idx |-> PRESET_SAMPLES_IDX + 1, version |-> PRESET_VERSION, seq |-> <<1, 0>>]

\* Flash images a PRESETS.UF2 may hold: the slot's page first, second, or absent.
MainLayouts == {<<SlotPage(<<0, 5>>), OtherPage>>, <<OtherPage, SlotPage(<<0, 7>>)>>, <<OtherPage>>}

PresetsFile(lay) == write_uf2(Image(lay), PRESET_TARGET_ADDRESS_OFFSET).content

\* PRESETS.UF2 as found: missing, well formed, with the third block's address
\* off by one page, or empty.
PresetsChoices ==
    {[layout |-> <<>>, bytes |-> NoFile], [layout |-> <<>>, bytes |-> <<>>]}
    \cup {[layout |-> lay, bytes |-> PresetsFile(lay)] : lay \in MainLayouts}
    \cup {[layout |-> lay,
           bytes |-> PokeU32(PresetsFile(lay), 2 * UF2_BLOCK_SIZE + 12,
                             WAdd(PRESET_TARGET_ADDRESS_OFFSET, WOfNat(PRESET_PAGE_SIZE)))] :
              lay \in {<<SlotPage(<<0, 5>>), OtherPage>>}}

GoodWav(n, cues) ==
    [nchannels |-> 1, sampwidth |-> 2, framerate |-> 32000, nframes |-> n,
     comptype |-> "NONE", markers |-> cues, seed |-> 17]

WavFiles ==
    {GoodWav(n, cues) : n \in {0, SAMPLE_COUNT - 548, SAMPLE_COUNT}, cues \in {<<>>, <<900, 40>>}}
    \cup {[GoodWav(100, <<>>) EXCEPT !.nchannels = 2],
          [GoodWav(100, <<>>) EXCEPT !.sampwidth = 1],
          [GoodWav(100, <<>>) EXCEPT !.framerate = 44100],
          [GoodWav(100, <<>>) EXCEPT !.comptype = "ULAW"],
          GoodWav(SAMPLE_COUNT + 1, <<>>)}

InitMain ==
    /\ pc = "start"
    /\ wav \in WavFiles
    /\ index \in {0}
    /\ \E pf \in PresetsChoices : \E old \in {NoFile, Zeros(UF2_BLOCK_SIZE)} :
          /\ layout = pf.layout
          /\ files = [presets |-> pf.bytes, sample |-> old, backups |-> <<>>]
    /\ files0 = files
    /\ sample_data = <<>> /\ markers = <<>>
    /\ presets_data = <<>> /\ found = NoFound
    /\ sample_len = 0 /\ waveform = <<>> /\ splits = <<>> /\ updated = NoUpdate
    /\ UF2Idle

\* create_backup: an existing file is copied under a fresh name.
create_backup(fs, name) ==
    IF fs[name] = NoFile THEN fs
    ELSE [fs EXCEPT !.backups = Append(@, [of |-> name, bytes |-> fs[name]])]

\* write_uf2(data, filename, target_address) on the directory: backup, then
\* the file is opened for writing and receives the blocks.
WriteFile(fs, name, bytes, address) ==
    [create_backup(fs, name) EXCEPT ![name] = write_uf2(bytes, address).content]

\* if not os.path.exists("PRESETS.UF2"): sys.exit(1)
MainCheckPresets ==
    /\ pc = "start"
    /\ pc' = IF files.presets = NoFile THEN "exit" ELSE "read_wav"
    /\ UNCHANGED <<uf2vars, jvars, markers, mvars>>

\* sample_data, sample_len = read_wav(filename)
MainReadWav ==
    /\ pc = "read_wav"
    /\ LET r == read_wav(wav)
       IN /\ pc' = IF r.kind = "ok" THEN "write_sample" ELSE "failed"
          /\ sample_data' = r.bytes
          /\ sample_len' = r.nframes
    /\ UNCHANGED <<uf2vars, layout, presets_data, index, found, waveform, splits, updated,
                   markers, wav, files, files0>>

\* write_uf2sample(sample_data, index)
MainWriteSample ==
    /\ pc = "write_sample"
    /\ LET address == WAdd(SAMPLE_TARGET_ADDRESS_OFFSET,
                           WOfNat(index * SAMPLE_NUM_BLOCKS * UF2_PAYLOAD_SIZE))
       IN /\ files' = WriteFile(files, "sample", sample_data, address)
          /\ pc' = IF write_uf2(sample_data, address).ok THEN "derive" ELSE "failed"
    /\ UNCHANGED <<uf2vars, jvars, markers, wav, sample_data, files0>>

\* waveform = create_waveform(sample_data); markers = read_wav_markers(filename);
\* splits = create_splits(markers, sample_len)
MainDerive ==
    /\ pc = "derive"
    /\ LET w == create_waveform(sample_data)
       IN IF w.kind = "ok"
          THEN /\ waveform' = w.packed
               /\ markers' = wav.markers
               /\ splits' = create_splits(wav.markers, sample_len)
               /\ pc' = "read_presets"
          ELSE /\ pc' = "failed"
               /\ UNCHANGED <<waveform, markers, splits>>
    /\ UNCHANGED <<uf2vars, layout, presets_data, index, found, sample_len, updated, mvars>>

\* presets_data = read_uf2("PRESETS.UF2")
MainReadPresets ==
    /\ pc = "read_presets"
    /\ LET r == read_uf2(files.presets)
       IN /\ pc' = IF r.kind = "ok" THEN "print_before" ELSE "failed"
          /\ presets_data' = r.data
    /\ UNCHANGED <<uf2vars, layout, index, found, sample_len, waveform, splits, updated,
                   markers, mvars>>

\* print_sample_page("Before update:", presets_data, index)
MainPrintBefore ==
    /\ pc = "print_before"
    /\ found' = find_sample_offset(presets_data, index)
    /\ pc' = IF print_sample_page(presets_data, index) THEN "update" ELSE "failed"
    /\ UNCHANGED <<uf2vars, layout, presets_data, index, sample_len, waveform, splits, updated,
                   markers, mvars>>

\* updated_presets_data = update_sample_page(presets_data, index, sample_len, waveform, splits)
MainUpdate ==
    /\ pc = "update"
    /\ updated' = update_sample_page(presets_data, index, sample_len, waveform, splits)
    /\ presets_data' = updated'.data
    /\ pc' = IF updated'.kind = "ok" THEN "write_presets" ELSE "failed"
    /\ UNCHANGED <<uf2vars, layout, index, found, sample_len, waveform, splits, markers, mvars>>

\* write_uf2(updated_presets_data, "PRESETS.UF2", PRESET_TARGET_ADDRESS_OFFSET)
MainWritePresets ==
    /\ pc = "write_presets"
    /\ files' = WriteFile(files, "presets", updated.ba, PRESET_TARGET_ADDRESS_OFFSET)
    /\ pc' = IF write_uf2(updated.ba, PRESET_TARGET_ADDRESS_OFFSET).ok THEN "committed" ELSE "failed"
    /\ UNCHANGED <<uf2vars, jvars, markers, wav, sample_data, files0>>

\* presets_data = read_uf2("PRESETS.UF2"); print_sample_page("After update:", ...)
MainReadBack ==
    /\ pc = "committed"
    /\ LET r == read_uf2(files.presets)
       IN /\ presets_data' = r.data
          /\ pc' = IF r.kind = "ok" /\ print_sample_page(r.data, index) THEN "done" ELSE "failed"
    /\ UNCHANGED <<uf2vars, layout, index, found, sample_len, waveform, splits, updated,
                   markers, mvars>>

NextMain ==
    \/ MainCheckPresets \/ MainReadWav \/ MainWriteSample \/ MainDerive \/ MainReadPresets
    \/ MainPrintBefore \/ MainUpdate \/ MainWritePresets \/ MainReadBack

SpecMain == InitMain /\ [][NextMain]_vars

\* The PRESETS image has been decoded and no page of it carries the sample
\* slot at the expected version.
NoPageFound ==
    /\ pc \in {"print_before", "update", "write_presets", "committed", "done"}
    /\ ~\E p \in 1..Len(layout) : Matches(layout, index, p)

\* C6: when a stage of the run fails (unsupported audio, non-contiguous
\* PRESETS image) or no page is found for the sample slot, the run is not
\* committed and the directory is as it was when the run started.
C6_AbortsClean ==
    (pc = "failed" \/ NoPageFound) =>
        /\ pc \notin {"committed", "done"}
        /\ files = files0

=============================================================================
